---- MODULE Spec2Model ----
(***************************************************************************)
(* A model of src/app.py: the sliding-window limiter (check_rate_limit),   *)
(* the /generate handler with its model fallback, error classification,    *)
(* keyword extraction and GIF enrichment, and the /search-gif handler with *)
(* its two providers.                                                      *)
(*                                                                         *)
(* Time is counted in ticks of 1/TicksPerSecond second; `now` is the value *)
(* the last datetime.now() returned.  Python strings are TLA+ strings,     *)
(* read one character at a time with SubSeq.                               *)
(***************************************************************************)
EXTENDS Integers, Sequences, FiniteSets, TLC

VARIABLES
    now,            \* the instant read by the latest datetime.now()
    request_times,  \* the global timestamp log (app.py:25)
    giphy_key,      \* whether GIPHY_API_KEY is configured (app.py:16)
    admitted,       \* history: every instant at which the limiter admitted
    nreq,           \* history: number of requests received so far
    req,            \* the latest request and what the outside world answered
    resp,           \* the response to the latest request
    calls,          \* outbound calls made while handling the latest request
    pc,             \* concurrent tasks: where each task is suspended
    task,           \* concurrent tasks: each task's locals and response
    kw              \* keyword extractor runs: input and results

vars == <<now, request_times, giphy_key, admitted, nreq, req, resp, calls,
          pc, task, kw>>

-----------------------------------------------------------------------------
(* Bounds of the model *)

TicksPerSecond == 2
MaxRequests == 5
MaxBurst == 3
MaxItems == 7
MaxLen == 6
NumTasks == 3

(* Constants of the program *)

MAX_REQUESTS_PER_MINUTE == 2
WindowSeconds == 60
WaitBase == 60
DefaultQuotaWait == 60
GifLimit == 6
KeywordLimit == 50

-----------------------------------------------------------------------------
(* Python string operations *)

Char(s, i) == SubSeq(s, i, i)

UpperLetters == "ABCDEFGHIJKLMNOPQRSTUVWXYZ"
LowerLetters == "abcdefghijklmnopqrstuvwxyz"
Digits == "0123456789"
Whitespace == {" ", "\t", "\n"}

UpperSet == {Char(UpperLetters, i) : i \in 1..26}

\* str.lower() on one letter
LowerOf ==
    [c \in UpperSet |->
        Char(LowerLetters, CHOOSE i \in 1..26 : Char(UpperLetters, i) = c)]

\* str.lower() on one character
LowerChar(c) == IF c \in UpperSet THEN LowerOf[c] ELSE c

RECURSIVE Lower(_)
Lower(s) ==
    IF Len(s) = 0 THEN ""
    ELSE LowerChar(Char(s, 1)) \o Lower(SubSeq(s, 2, Len(s)))

\* sub occurs in s at index i
OccursAt(s, sub, i) ==
    /\ i >= 1
    /\ i + Len(sub) - 1 <= Len(s)
    /\ SubSeq(s, i, i + Len(sub) - 1) = sub

\* Python's `sub in s`
Contains(s, sub) == \E i \in 1..(Len(s) + 1) : OccursAt(s, sub, i)

\* index of the leftmost occurrence of sub in s (0 when there is none)
Find(s, sub) ==
    IF Contains(s, sub)
    THEN CHOOSE i \in 1..(Len(s) + 1) :
            /\ OccursAt(s, sub, i)
            /\ \A j \in 1..(i - 1) : ~OccursAt(s, sub, j)
    ELSE 0

\* s.replace(old, ""): one left-to-right scan over non-overlapping occurrences
RECURSIVE Remove(_, _)
Remove(s, old) ==
    IF Find(s, old) = 0 THEN s
    ELSE LET i == Find(s, old)
         IN  SubSeq(s, 1, i - 1) \o Remove(SubSeq(s, i + Len(old), Len(s)), old)

RECURSIVE LStrip(_)
LStrip(s) ==
    IF Len(s) > 0 /\ Char(s, 1) \in Whitespace
    THEN LStrip(SubSeq(s, 2, Len(s)))
    ELSE s

RECURSIVE RStrip(_)
RStrip(s) ==
    IF Len(s) > 0 /\ Char(s, Len(s)) \in Whitespace
    THEN RStrip(SubSeq(s, 1, Len(s) - 1))
    ELSE s

\* str.strip()
Strip(s) == RStrip(LStrip(s))

DigitSet == {Char(Digits, i) : i \in 1..10}

IsDigit(c) == c \in DigitSet

DigitValue(c) == (CHOOSE i \in 1..10 : Char(Digits, i) = c) - 1

\* int() of a string of decimal digits
RECURSIVE ParseInt(_)
ParseInt(s) ==
    IF Len(s) = 0 THEN 0
    ELSE 10 * ParseInt(SubSeq(s, 1, Len(s) - 1)) + DigitValue(Char(s, Len(s)))

\* the longest run of digits of s that starts at index i (greedy \d+)
RECURSIVE DigitRun(_, _)
DigitRun(s, i) ==
    IF i <= Len(s) /\ IsDigit(Char(s, i))
    THEN Char(s, i) \o DigitRun(s, i + 1)
    ELSE ""

\* int() of a float: truncation toward zero; v is in ticks
IntSeconds(v) ==
    IF v >= 0 THEN v \div TicksPerSecond ELSE -((-v) \div TicksPerSecond)

-----------------------------------------------------------------------------
(* The sliding-window limiter *)

Window == WindowSeconds * TicksPerSecond

RECURSIVE SeqMin(_)
SeqMin(s) ==
    IF Len(s) = 1 THEN s[1]
    ELSE LET m == SeqMin(Tail(s)) IN IF s[1] < m THEN s[1] ELSE m

\* line 32 with the comparison turned round
PruneInverted(t, log) == SelectSeq(log, LAMBDA e : t - e > Window)

\* line 32: the entries of the log that are younger than one minute
Prune(t, log) == SelectSeq(log, LAMBDA e : t - e < Window)

\* line 34 with > for >=
OverQuotaOffByOne(log) == Len(log) > MAX_REQUESTS_PER_MINUTE

\* line 34: the log is full
OverQuota(log) == Len(log) >= MAX_REQUESTS_PER_MINUTE

\* line 36-37: the wait reported with a rejection
WaitTime(t, log) == IntSeconds(WaitBase * TicksPerSecond - (t - SeqMin(log)))

\* check_rate_limit() called at instant t on the log: the decision, the wait
\* and the log it leaves
check_rate_limit(t, log) ==
    LET kept == Prune(t, log)
    IN  IF OverQuota(kept)
        THEN [can_proceed |-> FALSE, wait_time |-> WaitTime(t, kept), log |-> kept]
        ELSE [can_proceed |-> TRUE, wait_time |-> 0, log |-> Append(kept, t)]

-----------------------------------------------------------------------------
(* Responses: a JSON body is the set of keys present and their values *)

Blank ==
    [code |-> 0, keys |-> {}, is_dict |-> FALSE, status |-> "", error |-> "",
     wait_seconds |-> 0, message |-> "", model_used |-> "", prompt |-> "",
     output |-> "", idea |-> "", requests_remaining |-> 0,
     related_gifs |-> <<>>, query |-> "", gifs |-> <<>>, count |-> 0]

-----------------------------------------------------------------------------
(* /search-gif *)

Providers == {"Giphy", "Tenor"}

\* what a provider can answer: the call raises (timeout, network), or returns
\* an HTTP status and a body; a body is not JSON, or lists items, each with
\* or without a title, or without the media URL the handler reads
ItemKinds == {"titled", "untitled", "malformed"}

\* data.get(...)[:6]
FirstItems(items) ==
    SubSeq(items, 1, IF Len(items) < GifLimit THEN Len(items) ELSE GifLimit)

\* lines 159-163 and 180-184: one normalised item
GifItem(item, provider) ==
    [url |-> "url",
     title |-> IF item = "titled" THEN "title" ELSE "GIF",
     source |-> provider]

MapItems(items, provider) ==
    [i \in 1..Len(FirstItems(items)) |-> GifItem(FirstItems(items)[i], provider)]

\* how the handler's use of one provider's answer ends: "exception" (the call,
\* response.json() or an item lookup raises), "not_ok" (status other than
\* 200) or "ok"
ProviderResult(out) ==
    IF out.kind = "raise" THEN "exception"
    ELSE IF out.code # 200 THEN "not_ok"
    ELSE IF out.kind = "badjson" THEN "exception"
    ELSE IF \E i \in 1..Len(FirstItems(out.items)) :
                FirstItems(out.items)[i] = "malformed" THEN "exception"
    ELSE "ok"

\* lines 165-170 and 186-191
GifSuccess(query, items, provider) ==
    [Blank EXCEPT !.code = 200, !.is_dict = TRUE,
                  !.keys = {"status", "query", "gifs", "count"},
                  !.status = "success", !.query = query,
                  !.gifs = MapItems(items, provider),
                  !.count = Len(MapItems(items, provider))]

\* lines 193-196 and 199-202
GifError(text) ==
    [Blank EXCEPT !.code = 500, !.keys = {"status", "error"},
                  !.status = "error", !.error = text]

\* line 151 without the test of the key
TryPrimaryAlways(key) == TRUE

\* line 151: the primary provider is tried only when its key is configured
TryPrimary(key) == key

\* lines 172-196: the secondary provider
Fallback(query, t, before) ==
    LET tres == ProviderResult(t)
    IN  IF tres = "exception"
        THEN [resp |-> GifError("GIF search failed: exception"),
              calls |-> before \o <<"Tenor">>]
        ELSE IF tres = "ok"
        THEN [resp |-> GifSuccess(query, t.items, "Tenor"),
              calls |-> before \o <<"Tenor">>]
        ELSE [resp |-> GifError("Failed to fetch GIFs"),
              calls |-> before \o <<"Tenor">>]

\* search_gif(query) with the key configured or not, when Giphy would answer
\* g and Tenor would answer t: the response and the providers called
search_gif(key, query, g, t) ==
    IF TryPrimary(key)
    THEN LET gres == ProviderResult(g)
         IN  IF gres = "exception"
             THEN [resp |-> GifError("GIF search failed: exception"),
                   calls |-> <<"Giphy">>]
             ELSE IF gres = "ok"
             THEN [resp |-> GifSuccess(query, g.items, "Giphy"),
                   calls |-> <<"Giphy">>]
             ELSE Fallback(query, t, <<"Giphy">>)
    ELSE Fallback(query, t, <<>>)

-----------------------------------------------------------------------------
(* /generate *)

ModelNames ==
    <<"gemini-2.0-flash-exp", "gemini-exp-1206", "gemini-2.0-flash", "gemini-pro">>

\* line 226 without the strip
IsBlankNoStrip(prompt) == Len(prompt) = 0

\* line 226: not prompt or len(prompt.strip()) == 0
IsBlank(prompt) == Len(prompt) = 0 \/ Len(Strip(prompt)) = 0

\* lines 276-278 with the strip done before the removals
KeywordsStripFirst(prompt) ==
    LET k == Remove(Remove(Remove(Remove(Strip(Lower(prompt)),
                 "create"), "generate"), "gif"), "video")
    IN  IF Len(k) > KeywordLimit THEN SubSeq(k, 1, KeywordLimit) ELSE k

\* lines 276-278: the search term derived from the prompt
Keywords(prompt) ==
    LET k == Strip(Remove(Remove(Remove(Remove(Lower(prompt),
                 "create"), "generate"), "gif"), "video"))
    IN  IF Len(k) > KeywordLimit THEN SubSeq(k, 1, KeywordLimit) ELSE k

\* line 291: the upstream error is a quota error
IsQuotaError(err) ==
    \/ Contains(err, "429")
    \/ LET lowered == Lower(err) IN Contains(lowered, "quota")

\* re.search(r'retry in (\d+)', err): where the leftmost match starts, or 0
RetryMatch(err) ==
    LET hit(i) == OccursAt(err, "retry in ", i) /\ IsDigit(Char(err, i + 9))
    IN  IF \E i \in 1..Len(err) : hit(i)
        THEN CHOOSE i \in 1..Len(err) : hit(i) /\ \A j \in 1..(i - 1) : ~hit(j)
        ELSE 0

\* lines 293-294
QuotaWait(err) ==
    IF RetryMatch(err) # 0
    THEN ParseInt(DigitRun(err, RetryMatch(err) + 9))
    ELSE DefaultQuotaWait

\* lines 289-310: the response to an exception whose text is err
ClassifyError(err) ==
    IF IsQuotaError(err)
    THEN [Blank EXCEPT !.code = 429,
                       !.keys = {"status", "error", "wait_seconds", "message"},
                       !.status = "quota_exceeded",
                       !.error = "API quota exceeded. Free tier limit: 2 requests per minute.",
                       !.wait_seconds = QuotaWait(err),
                       !.message = "Please wait " \o ToString(QuotaWait(err))
                                     \o " seconds and try again."]
    ELSE [Blank EXCEPT !.code = 500, !.keys = {"status", "error"},
                       !.status = "error",
                       !.error = "Failed to generate content: " \o err]

\* lines 216-224
RateLimited(wait_time) ==
    [Blank EXCEPT !.code = 429,
                  !.keys = {"status", "error", "wait_seconds", "message"},
                  !.status = "rate_limited",
                  !.error = "Rate limit exceeded. Free tier allows "
                              \o ToString(MAX_REQUESTS_PER_MINUTE)
                              \o " requests per minute.",
                  !.wait_seconds = wait_time,
                  !.message = "Please wait " \o ToString(wait_time)
                                \o " seconds before trying again."]

\* lines 227-230
EmptyPrompt ==
    [Blank EXCEPT !.code = 400, !.keys = {"status", "error"},
                  !.status = "error", !.error = "Prompt cannot be empty"]

\* lines 259-262
NoResponse ==
    [Blank EXCEPT !.code = 500, !.keys = {"status", "error"},
                  !.status = "error", !.error = "No response generated"]

\* lines 264-271
Result(model_name, prompt, text, log) ==
    [Blank EXCEPT !.code = 200,
                  !.keys = {"status", "model_used", "prompt", "output", "idea",
                            "requests_remaining"},
                  !.status = "success", !.model_used = model_name,
                  !.prompt = prompt, !.output = text, !.idea = text,
                  !.requests_remaining = MAX_REQUESTS_PER_MINUTE - Len(log)]

\* lines 280-287 without the try/except: a failed lookup becomes the response
EnrichPropagates(result, gif_response) ==
    IF gif_response.is_dict /\ gif_response.status = "success"
    THEN [result EXCEPT !.keys = @ \cup {"related_gifs"},
                        !.related_gifs = gif_response.gifs]
    ELSE ClassifyError("'JSONResponse' object has no attribute 'get'")

\* lines 280-287: the result after the GIF lookup answered gif_response; a
\* JSONResponse has no .get, and the bare except swallows that AttributeError
Enrich(result, gif_response) ==
    IF gif_response.is_dict /\ gif_response.status = "success"
    THEN [result EXCEPT !.keys = @ \cup {"related_gifs"},
                        !.related_gifs = gif_response.gifs]
    ELSE result

\* lines 242-250: inst leading model names fail to instantiate; the names tried
Tried(inst) ==
    [i \in 1..(IF inst < Len(ModelNames) THEN inst + 1 ELSE Len(ModelNames))
        |-> "GenerativeModel:" \o ModelNames[i]]

\* lines 232-287, once the limiter admitted the request and left the log:
\* the response and the outbound calls, when inst leading model names fail
\* to instantiate, the model answers up and the providers answer g and t
Admitted(key, log, prompt, include_media, inst, up, g, t) ==
    IF IsBlank(prompt)
    THEN [resp |-> EmptyPrompt, calls |-> <<>>]
    ELSE IF inst >= Len(ModelNames)
    THEN [resp |-> ClassifyError("No available models found"),
          calls |-> Tried(inst)]
    ELSE IF up.kind = "raise"
    THEN [resp |-> ClassifyError(up.err),
          calls |-> Tried(inst) \o <<"generate_content">>]
    ELSE IF Len(up.text) = 0
    THEN [resp |-> NoResponse, calls |-> Tried(inst) \o <<"generate_content">>]
    ELSE LET result == Result(ModelNames[inst + 1], prompt, up.text, log)
             search == search_gif(key, Keywords(prompt), g, t)
         IN  IF include_media
             THEN [resp |-> Enrich(result, search.resp),
                   calls |-> Tried(inst) \o <<"generate_content">> \o search.calls]
             ELSE [resp |-> result,
                   calls |-> Tried(inst) \o <<"generate_content">>]

\* generate(prompt, include_media) at instant t on the log: the response, the
\* outbound calls and the log it leaves
generate(t, log, key, prompt, include_media, inst, up, g, tn) ==
    LET rl == check_rate_limit(t, log)
    IN  IF ~rl.can_proceed
        THEN [resp |-> RateLimited(rl.wait_time), calls |-> <<>>,
              log |-> rl.log, can_proceed |-> FALSE]
        ELSE LET r == Admitted(key, rl.log, prompt, include_media, inst, up, g, tn)
             IN  [resp |-> r.resp, calls |-> r.calls,
                  log |-> rl.log, can_proceed |-> TRUE]

-----------------------------------------------------------------------------
(* Inputs *)

\* gaps between one clock reading and the next, in ticks: none, one tick,
\* one second, half a minute, one tick short of a minute, a minute
Delays ==
    {0, 1, TicksPerSecond, 30 * TicksPerSecond, Window - 1, Window}

CoarseDelays == {0, Window}

LimiterPrompts == {"", " \t ", "cat"}

EnrichPrompts == {"Create a cat GIF"}

Raise == [kind |-> "raise", code |-> 0, items |-> <<>>]
BadJson == [kind |-> "badjson", code |-> 200, items |-> <<>>]
Http(code, items) == [kind |-> "http", code |-> code, items |-> items]

\* the answer of a provider that is not consulted in a run
Unused == Http(500, <<>>)

\* item lists of every length up to MaxItems, with and without an item that
\* lacks its media URL in the last place
ItemLists ==
    {[i \in 1..n |-> IF i = n /\ bad THEN "malformed"
                     ELSE IF i % 2 = 0 THEN "untitled" ELSE "titled"] :
        n \in 0..MaxItems, bad \in BOOLEAN}

ProviderOutcomes ==
    {Raise, BadJson, Http(500, <<>>), Http(429, <<"titled">>)}
        \cup {Http(200, items) : items \in ItemLists}

FewOutcomes ==
    {Raise, Http(500, <<>>), Http(200, <<"titled", "untitled">>),
     Http(200, <<"malformed">>)}

Text(text) == [kind |-> "text", text |-> text, err |-> ""]
Raises(err) == [kind |-> "raise", text |-> "", err |-> err]

ErrorStrings ==
    {"429 Too Many Requests",
     "Quota exceeded, retry in 12s",
     "QUOTA exhausted",
     "quota hit, retry in 0.5s",
     "Quota hit, Retry in 5s",
     "API key not valid",
     "API auth failed",
     "quota: bad API key",
     "api key missing",
     "timeout"}

-----------------------------------------------------------------------------
(* State *)

Tasks == 1..NumTasks

NoRequest == [endpoint |-> "none"]

Init ==
    /\ now = 0
    /\ request_times = <<>>
    /\ giphy_key \in BOOLEAN
    /\ admitted = <<>>
    /\ nreq = 0
    /\ req = NoRequest
    /\ resp = Blank
    /\ calls = <<>>
    /\ pc = [t \in Tasks |-> "idle"]
    /\ task = [t \in Tasks |-> NoRequest]
    /\ kw = [input |-> "", once |-> "", twice |-> "", passes |-> 0]

\* history: how many admissions lie less than a minute before instant t
AdmittedWithin(t) ==
    Cardinality({i \in 1..Len(admitted) : t - admitted[i] < Window})

-----------------------------------------------------------------------------
(* Requests handled one at a time *)

\* GET /generate arriving d ticks after the previous clock reading
Generate(limit, d, prompt, include_media, inst, up, g, t, is_retry) ==
    /\ nreq < limit
    /\ LET r == generate(now + d, request_times, giphy_key, prompt,
                         include_media, inst, up, g, t)
       IN  /\ now' = now + d
           /\ request_times' = r.log
           /\ admitted' = IF r.can_proceed THEN Append(admitted, now + d)
                          ELSE admitted
           /\ req' = [endpoint |-> "generate", prompt |-> prompt,
                      include_media |-> include_media, inst |-> inst,
                      up |-> up, g |-> g, t |-> t, retry |-> is_retry,
                      prior |-> AdmittedWithin(now + d),
                      before |-> request_times]
           /\ resp' = r.resp
           /\ calls' = r.calls
    /\ nreq' = nreq + 1
    /\ UNCHANGED <<giphy_key, pc, task, kw>>

\* the client of a rate-limited request does what the message says: it waits
\* wait_seconds and sends the request again
RetryAfterWait ==
    /\ req.endpoint = "generate"
    /\ resp.status = "rate_limited"
    /\ Generate(MaxRequests + 1, resp.wait_seconds * TicksPerSecond, req.prompt,
                req.include_media, req.inst, req.up, req.g, req.t, TRUE)

\* GET /search-gif
SearchGif(query, g, t) ==
    /\ LET r == search_gif(giphy_key, query, g, t)
       IN  /\ req' = [endpoint |-> "search-gif", query |-> query,
                      g |-> g, t |-> t]
           /\ resp' = r.resp
           /\ calls' = r.calls
    /\ UNCHANGED <<now, request_times, giphy_key, admitted, nreq, pc, task, kw>>

-----------------------------------------------------------------------------
(* The limiter under requests that arrive one at a time *)

NextLimiter ==
    \/ \E d \in Delays, prompt \in LimiterPrompts :
          Generate(MaxRequests, d, prompt, FALSE, 0, Text("idea"), Unused,
                   Unused, FALSE)
    \/ RetryAfterWait

SpecLimiter == Init /\ [][NextLimiter]_vars

-----------------------------------------------------------------------------
(* Claims about the limiter and the prompt check *)

BlankPrompts == {"", " \t "}

InWindow(log, t) == {i \in 1..Len(log) : t - log[i] < Window}

\* C1, as stated: every /generate request with an empty or whitespace-only
\* prompt is answered 400 and makes no model call, whatever the log holds.
C1_BlankPromptAlways400 ==
    (req.endpoint = "generate" /\ req.prompt \in BlankPrompts)
        => resp.code = 400 /\ calls = <<>>

\* C1, amended: a request with an empty or whitespace-only prompt makes no
\* model call; it is answered 400 when fewer than two admissions lie in the
\* last minute, and 429 rate_limited otherwise (the limiter runs first).
C1_BlankPromptNoModel ==
    (req.endpoint = "generate" /\ req.prompt \in BlankPrompts)
        => /\ calls = <<>>
           /\ req.prior < MAX_REQUESTS_PER_MINUTE
                => resp.code = 400 /\ resp.error = "Prompt cannot be empty"
           /\ req.prior >= MAX_REQUESTS_PER_MINUTE
                => resp.code = 429 /\ resp.status = "rate_limited"

C1_Witness ==
    /\ req.endpoint = "generate"
    /\ req.prompt = " \t "
    /\ resp.code = 400
    /\ Len(request_times) = MAX_REQUESTS_PER_MINUTE

\* C2: a request that arrives while two admissions lie in the last minute is
\* answered 429 with 0 < wait_seconds <= 60.
C2_ThirdRequestWait ==
    (req.endpoint = "generate" /\ req.prior >= MAX_REQUESTS_PER_MINUTE)
        => /\ resp.code = 429
           /\ "wait_seconds" \in resp.keys
           /\ resp.wait_seconds > 0
           /\ resp.wait_seconds <= 60

\* C7: with calls made one at a time at non-decreasing instants, the log never
\* holds more than two entries of the minute before the latest decision, no
\* minute holds more than two admissions, and a rejected call appends nothing.
C7_WindowHoldsQuota ==
    /\ Cardinality(InWindow(request_times, now)) <= MAX_REQUESTS_PER_MINUTE
    /\ \A i \in 1..Len(admitted) :
          Cardinality({j \in 1..Len(admitted) :
                          /\ admitted[j] >= admitted[i]
                          /\ admitted[j] - admitted[i] < Window})
              <= MAX_REQUESTS_PER_MINUTE
    /\ (req.endpoint = "generate" /\ resp.status = "rate_limited")
          => /\ Len(request_times) <= Len(req.before)
             /\ \A i \in 1..Len(request_times) :
                   \E j \in 1..Len(req.before) :
                      req.before[j] = request_times[i]

C7_Witness ==
    /\ req.endpoint = "generate"
    /\ resp.status = "rate_limited"
    /\ Len(admitted) > MAX_REQUESTS_PER_MINUTE
    /\ Len(request_times) = MAX_REQUESTS_PER_MINUTE

\* C10: a request that repeats a rate-limited one exactly wait_seconds later,
\* with no request in between, is admitted.
C10_RetryAdmitted ==
    (req.endpoint = "generate" /\ req.retry) => resp.status # "rate_limited"

-----------------------------------------------------------------------------
(* Upstream failures during /generate *)

Upstreams ==
    {Raises(e) : e \in ErrorStrings} \cup {Text("idea"), Text("")}

NextErrors ==
    \E d \in CoarseDelays, inst \in 0..Len(ModelNames), up \in Upstreams :
        Generate(MaxBurst, d, "cat", FALSE, inst, up, Unused, Unused, FALSE)

SpecErrors == Init /\ [][NextErrors]_vars

\* the latest request reached the model call and the call raised
UpstreamRaised ==
    /\ req.endpoint = "generate"
    /\ req.up.kind = "raise"
    /\ calls # <<>>
    /\ calls[Len(calls)] = "generate_content"

MentionsQuota(err) ==
    LET lowered == Lower(err) IN Contains(lowered, "quota")

MentionsAuth(err) ==
    Contains(err, "API") /\ (Contains(err, "key") \/ Contains(err, "auth"))

\* C3: an upstream error whose text contains "quota" in any letter case is
\* answered 429, status quota_exceeded or rate_limited, with wait_seconds > 0.
C3_QuotaErrorPositiveWait ==
    (UpstreamRaised /\ MentionsQuota(req.up.err))
        => /\ resp.code = 429
           /\ resp.status \in {"quota_exceeded", "rate_limited"}
           /\ "wait_seconds" \in resp.keys
           /\ resp.wait_seconds > 0

\* C4: an upstream error that contains "API" with "key" or "auth", and is no
\* quota error, is answered 401; 500 is left to errors of neither kind.
C4_AuthError401 ==
    UpstreamRaised
        => /\ (MentionsAuth(req.up.err) /\ ~IsQuotaError(req.up.err))
                => resp.code = 401
           /\ resp.code = 500
                => ~MentionsAuth(req.up.err) /\ ~IsQuotaError(req.up.err)

-----------------------------------------------------------------------------
(* GIF enrichment during /generate *)

NextEnrich ==
    \E d \in CoarseDelays, prompt \in EnrichPrompts, include_media \in BOOLEAN,
       up \in {Text("idea"), Text("")}, g \in FewOutcomes, t \in FewOutcomes :
        Generate(MaxBurst, d, prompt, include_media, 0, up, g, t, FALSE)

SpecEnrich == Init /\ [][NextEnrich]_vars

\* a provider's answer is a 200 whose first six items can all be read
Readable(out) ==
    /\ out.kind = "http"
    /\ out.code = 200
    /\ \A i \in 1..Len(out.items) : i <= 6 => out.items[i] # "malformed"

Called(provider) == \E i \in 1..Len(calls) : calls[i] = provider

Succeeded(provider) ==
    /\ Called(provider)
    /\ Readable(IF provider = "Giphy" THEN req.g ELSE req.t)

\* the latest request's model call returned non-empty text
ModelAnswered ==
    /\ req.endpoint = "generate"
    /\ req.up.kind = "text"
    /\ req.up.text # ""
    /\ Called("generate_content")

\* C5: once the model call returned non-empty text the response is 200 with
\* that text, whatever the GIF lookup does; related_gifs is present only when
\* include_media is true and a provider succeeded.
C5_EnrichmentNeverFails ==
    ModelAnswered
        => /\ resp.code = 200
           /\ resp.status = "success"
           /\ resp.output = req.up.text
           /\ resp.idea = req.up.text
           /\ "related_gifs" \in resp.keys
                => /\ req.include_media
                   /\ Succeeded("Giphy") \/ Succeeded("Tenor")
           /\ ~req.include_media => "related_gifs" \notin resp.keys

C5_Witness ==
    /\ ModelAnswered
    /\ req.include_media
    /\ giphy_key
    /\ req.g = Raise
    /\ calls[Len(calls)] = "Giphy"
    /\ resp.code = 200
    /\ "related_gifs" \notin resp.keys

-----------------------------------------------------------------------------
(* /search-gif on its own *)

Queries == {"", "cat"}

NextGif ==
    \E query \in Queries, g \in ProviderOutcomes, t \in ProviderOutcomes :
        SearchGif(query, g, t)

SpecGif == Init /\ [][NextGif]_vars

AllFromTenor ==
    \A i \in 1..Len(resp.gifs) : resp.gifs[i].source = "Tenor"

\* C6, as stated: when the primary provider is not configured or its call does
\* not return success, the secondary is called before a failure is reported;
\* 500 only when neither succeeded; without the key the primary is never
\* called and every item is tagged Tenor.
C6_FallbackOnAnyFailure ==
    req.endpoint = "search-gif"
        => /\ (~giphy_key \/ ~Readable(req.g)) => Called("Tenor")
           /\ resp.code = 500 => ~Succeeded("Giphy") /\ ~Succeeded("Tenor")
           /\ ~giphy_key => ~Called("Giphy") /\ AllFromTenor

\* C6, amended: the secondary is called when the primary is not configured or
\* answers with a status other than 200; when the primary call raises, or its
\* 200 body cannot be read, 500 is returned and the secondary is not called.
\* 500 only when no provider succeeded; without the key the primary is never
\* called and every item is tagged Tenor.
C6_FallbackOnStatus ==
    req.endpoint = "search-gif"
        => /\ (~giphy_key \/ (req.g.kind = "http" /\ req.g.code # 200))
                => Called("Tenor")
           /\ (giphy_key /\ (req.g.kind # "http" \/ req.g.code = 200))
                => ~Called("Tenor")
           /\ (giphy_key /\ ~Readable(req.g)
                         /\ (req.g.kind # "http" \/ req.g.code = 200))
                => resp.code = 500
           /\ resp.code = 500 => ~Succeeded("Giphy") /\ ~Succeeded("Tenor")
           /\ resp.code # 500 => resp.code = 200 /\ resp.count <= 6
           /\ ~giphy_key => ~Called("Giphy") /\ AllFromTenor

C6_Witness ==
    /\ req.endpoint = "search-gif"
    /\ giphy_key
    /\ req.g.code = 429
    /\ calls = <<"Giphy", "Tenor">>
    /\ resp.code = 200
    /\ resp.count = 6
    /\ Len(req.t.items) > 6
    /\ AllFromTenor

-----------------------------------------------------------------------------
(* The keyword extractor as a function of the prompt *)

RECURSIVE Repeat(_, _)
Repeat(s, n) == IF n = 0 THEN "" ELSE s \o Repeat(s, n - 1)

Alphabet == {"g", "i", "f", " "}

RECURSIVE StringsUpTo(_)
StringsUpTo(n) ==
    IF n = 0 THEN {""}
    ELSE LET shorter == StringsUpTo(n - 1)
         IN  shorter \cup {s \o c : s \in shorter, c \in Alphabet}

KeywordInputs ==
    StringsUpTo(MaxLen)
        \cup {"Create a cat GIF", "crecreateate", "vivideodeo", "gegifnerate",
              "feather video", Repeat("x", 49) \o " y", Repeat("ab", 30),
              Repeat("x", 48) \o "gif" \o "yz"}

InitKeywords ==
    /\ now = 0
    /\ request_times = <<>>
    /\ giphy_key \in BOOLEAN
    /\ admitted = <<>>
    /\ nreq = 0
    /\ req = NoRequest
    /\ resp = Blank
    /\ calls = <<>>
    /\ pc = [t \in Tasks |-> "idle"]
    /\ task = [t \in Tasks |-> NoRequest]
    /\ kw \in {[input |-> x, once |-> "", twice |-> "", passes |-> 0] :
                  x \in KeywordInputs}

\* lines 276-278 on the prompt
ExtractOnce ==
    /\ kw.passes = 0
    /\ kw' = [kw EXCEPT !.once = Keywords(kw.input), !.passes = 1]
    /\ UNCHANGED <<now, request_times, giphy_key, admitted, nreq, req, resp,
                   calls, pc, task>>

\* lines 276-278 on their own result
ExtractTwice ==
    /\ kw.passes = 1
    /\ kw' = [kw EXCEPT !.twice = Keywords(kw.once), !.passes = 2]
    /\ UNCHANGED <<now, request_times, giphy_key, admitted, nreq, req, resp,
                   calls, pc, task>>

NextKeywords == ExtractOnce \/ ExtractTwice

SpecKeywords == InitKeywords /\ [][NextKeywords]_vars

Stoplist == {"create", "generate", "gif", "video"}

NoStoplistTerm(s) == \A term \in Stoplist : ~Contains(s, term)

EndsInWhitespace(s) == Len(s) > 0 /\ Char(s, Len(s)) \in Whitespace

\* C9, as stated: extraction is idempotent: a second pass over the result of
\* the first changes nothing, no stoplist term being left after one pass.
C9_ExtractIdempotent ==
    kw.passes = 2 => kw.twice = kw.once /\ NoStoplistTerm(kw.once)

\* C9, amended: a second pass changes nothing when the result of the first
\* holds no stoplist term and does not end in whitespace; a pass never
\* lengthens its input and never returns more than 50 characters.
C9_IdempotentOnCleanResults ==
    /\ kw.passes >= 1 => Len(kw.once) <= Len(kw.input) /\ Len(kw.once) <= 50
    /\ kw.passes = 2
          => /\ Len(kw.twice) <= Len(kw.once)
             /\ (NoStoplistTerm(kw.once) /\ ~EndsInWhitespace(kw.once))
                   => kw.twice = kw.once

C9_Witness ==
    /\ kw.passes = 2
    /\ kw.input = "Create a cat GIF"
    /\ kw.once = "a cat"
    /\ kw.twice = kw.once

-----------------------------------------------------------------------------
(* Concurrent /generate requests: one process, one task per request; a task  *)
(* runs until it suspends at the model call or at the GIF lookup, and no     *)
(* other task runs in between.                                               *)

\* lines 212-256: a request arrives d ticks after the previous clock reading
\* and its task runs to the model call, or to an early response
TaskStart(t, d, prompt, include_media) ==
    /\ pc[t] = "idle"
    /\ LET rl == check_rate_limit(now + d, request_times)
           early == IF ~rl.can_proceed THEN RateLimited(rl.wait_time)
                    ELSE EmptyPrompt
       IN  /\ now' = now + d
           /\ request_times' = rl.log
           /\ admitted' = IF rl.can_proceed THEN Append(admitted, now + d)
                          ELSE admitted
           /\ IF rl.can_proceed /\ ~IsBlank(prompt)
              THEN /\ pc' = [pc EXCEPT ![t] = "model_call"]
                   /\ task' = [task EXCEPT ![t] =
                          [endpoint |-> "generate", prompt |-> prompt,
                           include_media |-> include_media, resp |-> Blank]]
              ELSE /\ pc' = [pc EXCEPT ![t] = "done"]
                   /\ task' = [task EXCEPT ![t] =
                          [endpoint |-> "generate", prompt |-> prompt,
                           include_media |-> include_media, resp |-> early]]
    /\ nreq' = nreq + 1
    /\ UNCHANGED <<giphy_key, req, resp, calls, kw>>

\* lines 256-281: the model call of task t returns or raises, and the task
\* runs to the GIF lookup, or to its response
TaskModelReturn(t, up) ==
    /\ pc[t] = "model_call"
    /\ LET result == Result(ModelNames[1], task[t].prompt, up.text, request_times)
       IN  IF up.kind = "raise"
           THEN /\ pc' = [pc EXCEPT ![t] = "done"]
                /\ task' = [task EXCEPT ![t].resp = ClassifyError(up.err)]
           ELSE IF Len(up.text) = 0
           THEN /\ pc' = [pc EXCEPT ![t] = "done"]
                /\ task' = [task EXCEPT ![t].resp = NoResponse]
           ELSE IF task[t].include_media
           THEN /\ pc' = [pc EXCEPT ![t] = "gif_call"]
                /\ task' = [task EXCEPT ![t].resp = result]
           ELSE /\ pc' = [pc EXCEPT ![t] = "done"]
                /\ task' = [task EXCEPT ![t].resp = result]
    /\ UNCHANGED <<now, request_times, giphy_key, admitted, nreq, req, resp,
                   calls, kw>>

\* lines 281-287: the GIF lookup of task t ends and the task responds
TaskGifReturn(t, g, tn) ==
    /\ pc[t] = "gif_call"
    /\ pc' = [pc EXCEPT ![t] = "done"]
    /\ task' = [task EXCEPT ![t].resp =
          Enrich(task[t].resp,
                 search_gif(giphy_key, Keywords(task[t].prompt), g, tn).resp)]
    /\ UNCHANGED <<now, request_times, giphy_key, admitted, nreq, req, resp,
                   calls, kw>>

NextConcurrent ==
    \E t \in Tasks :
        \/ \E d \in CoarseDelays, include_media \in BOOLEAN :
              TaskStart(t, d, "cat", include_media)
        \/ \E up \in {Text("idea"), Raises("timeout")} : TaskModelReturn(t, up)
        \/ TaskGifReturn(t, Raise, Http(200, <<"titled">>))

SpecConcurrent == Init /\ [][NextConcurrent]_vars

\* history: some minute holds more admissions than the quota
OverAdmitted ==
    \E i \in 1..Len(admitted) :
        Cardinality({j \in 1..Len(admitted) :
                        /\ admitted[j] >= admitted[i]
                        /\ admitted[j] - admitted[i] < Window})
            > MAX_REQUESTS_PER_MINUTE

\* more requests than the quota arrived within one minute, and every one the
\* limiter let through is still suspended in an outbound call: they overlap
ConcurrentBurst ==
    /\ nreq > MAX_REQUESTS_PER_MINUTE
    /\ now < Window
    /\ \A t \in Tasks :
          \/ pc[t] \in {"idle", "model_call", "gif_call"}
          \/ task[t].resp.status = "rate_limited"

\* C8, as stated: concurrent requests interleave the limiter's prune, check
\* and append so that more than two requests are admitted within one minute.
C8_ConcurrentBurstOverAdmits == ConcurrentBurst => OverAdmitted

\* C8, amended: check_rate_limit holds no suspension point, so a task prunes,
\* checks and appends in one step; however the tasks interleave, no minute
\* holds more than two admissions and the log never holds more than two
\* entries of the last minute.
C8_NoOverAdmission ==
    /\ ~OverAdmitted
    /\ Cardinality(InWindow(request_times, now)) <= MAX_REQUESTS_PER_MINUTE

C8_Witness ==
    /\ ConcurrentBurst
    /\ \E t1, t2, t3 \in Tasks :
          /\ pc[t1] = "model_call"
          /\ pc[t2] = "gif_call"
          /\ pc[t3] = "done"
          /\ task[t3].resp.status = "rate_limited"

====
